---- MODULE Spec2Model ----
(***************************************************************************)
(* Model of transformers_multiclass_classification.py: a linear pipeline   *)
(* that reads a category column, maps codes to names (update_cat), encodes *)
(* names to integers (encode_cat), splits the frame into a training and a  *)
(* test part, trains for EPOCHS epochs, evaluates (valid) and saves two    *)
(* artifact files.  Any uncaught exception ends the run.                   *)
(*                                                                         *)
(* Rows are identified by their original index label 0..n-1.  The model    *)
(* weights are abstracted to the number of optimizer steps applied to      *)
(* them: two weight values are equal iff no step lies between them.        *)
(***************************************************************************)
EXTENDS Integers, Sequences, FiniteSets, TLC

VARIABLES pc, CATEGORY, ENCODE_CAT, encode_dict, train_dataset, test_dataset,
          weights, epoch, train_seen, test_left, n_correct, total, acc,
          saved, err

vars == <<pc, CATEGORY, ENCODE_CAT, encode_dict, train_dataset, test_dataset,
          weights, epoch, train_seen, test_left, n_correct, total, acc,
          saved, err>>

(* ------------------------------ bounds --------------------------------- *)
\* longest arbitrary head of the category column
MaxHead == 1
\* longest tail of the category column (cycling through the four codes)
MaxTail == 12
\* largest position torch.max may report (the code's range is 0..MAX_LEN-1)
MaxBigIdx == 2

(* ------------------------- program constants --------------------------- *)
TRAIN_BATCH_SIZE == 4
VALID_BATCH_SIZE == 2
EPOCHS == 1

\* the hand-written mapping from category codes to names
my_dict == ("e" :> "Entertainment") @@ ("b" :> "Business") @@
           ("t" :> "Science") @@ ("m" :> "Health")

\* a CATEGORY code that is not a key of my_dict
BadCode == "x"
\* marks that update_cat raised KeyError instead of returning
KeyError == "KeyError"

output_model_file == "pytorch_distilbert_news.bin"
output_vocab_file == "vocab_distilbert_news.bin"

(* ----------------------------- helpers --------------------------------- *)
Min(a, b) == IF a < b THEN a ELSE b

Range(s) == {s[i] : i \in 1..Len(s)}

\* variant of update_cat that looks the key up with a default, my_dict.get,
\* and so never raises
update_cat_get(x) == IF x \in DOMAIN my_dict THEN my_dict[x] ELSE "Unknown"
\* update_cat(x): my_dict[x]; a missing key raises KeyError
update_cat(x) == IF x \in DOMAIN my_dict THEN my_dict[x] ELSE KeyError

\* encode_cat(x) on dictionary d: the dictionary afterwards and the value
\* returned, which is len(encode_dict)
encode_cat(d, x) ==
    LET d2 == IF x \notin DOMAIN d
              THEN d @@ (x :> Cardinality(DOMAIN d)) ELSE d
    IN  [dict |-> d2, ret |-> Cardinality(DOMAIN d2)]

\* number of rows df.sample(frac=0.8) draws from n rows: round(0.8 * n)
SampleSize(n) == (8 * n + 5) \div 10

\* index labels of a frame of n rows
Labels(n) == 0 .. (n - 1)

NumRows == Len(CATEGORY)

(* --------------------------- initial state ----------------------------- *)
CodeCycle == <<"e", "b", "t", "m">>
AllCodes == DOMAIN my_dict \cup {BadCode}

Heads == UNION {[1..h -> AllCodes] : h \in 0..MaxHead}
CycleTail(t) == [i \in 1..t |-> CodeCycle[((i - 1) % 4) + 1]]
Columns == {h \o CycleTail(t) : h \in Heads, t \in 0..MaxTail} \ {<<>>}

\* state after read_csv and the column selection, all other globals unset
Init ==
    /\ pc = "update_cat"
    /\ CATEGORY \in Columns
    /\ ENCODE_CAT = <<>>
    /\ encode_dict = <<>>
    /\ train_dataset = {}
    /\ test_dataset = {}
    /\ weights = 0
    /\ epoch = 0
    /\ train_seen = 0
    /\ test_left = {}
    /\ n_correct = 0
    /\ total = 0
    /\ acc = <<>>
    /\ saved = {}
    /\ err = "none"

\* an uncaught exception ends the run
Raise(e) == pc' = "failed" /\ err' = e

(* ------------------------------ actions -------------------------------- *)
\* df['CATEGORY'] = df['CATEGORY'].apply(update_cat)
UpdateCat ==
    /\ pc = "update_cat"
    /\ LET mapped == [i \in 1..NumRows |-> update_cat(CATEGORY[i])]
       IN  IF KeyError \in Range(mapped)
           THEN /\ Raise(KeyError)
                /\ UNCHANGED CATEGORY
           ELSE /\ CATEGORY' = mapped
                /\ pc' = "encode_cat"
                /\ UNCHANGED err
    /\ UNCHANGED <<ENCODE_CAT, encode_dict, train_dataset, test_dataset,
                   weights, epoch, train_seen, test_left, n_correct, total,
                   acc, saved>>

\* one call of encode_cat made by df['CATEGORY'].apply, on the next row
EncodeCat ==
    /\ pc = "encode_cat"
    /\ Len(ENCODE_CAT) < NumRows
    /\ LET r == encode_cat(encode_dict, CATEGORY[Len(ENCODE_CAT) + 1])
       IN  /\ encode_dict' = r.dict
           /\ ENCODE_CAT' = Append(ENCODE_CAT, r.ret)
    /\ UNCHANGED <<pc, CATEGORY, train_dataset, test_dataset, weights, epoch,
                   train_seen, test_left, n_correct, total, acc, saved, err>>

\* rows of df that remain after df.drop(train_dataset.index): the index of
\* train_dataset was reset to 0..k-1, so these labels are dropped
DropLabels(n, k) == Labels(n) \ Labels(k)

\* train_dataset = df.sample(frac=0.8).reset_index(drop=True)
\* test_dataset = df.drop(train_dataset.index).reset_index(drop=True)
Split ==
    /\ pc = "encode_cat"
    /\ Len(ENCODE_CAT) = NumRows
    /\ \E sampled \in SUBSET Labels(NumRows) :
          /\ Cardinality(sampled) = SampleSize(NumRows)
          /\ train_dataset' = sampled
          /\ test_dataset' = DropLabels(NumRows, Cardinality(sampled))
    /\ pc' = "loaders"
    /\ UNCHANGED <<CATEGORY, ENCODE_CAT, encode_dict, weights, epoch,
                   train_seen, test_left, n_correct, total, acc, saved, err>>

\* DataLoader(training_set, shuffle=True), DataLoader(testing_set,
\* shuffle=True): the sampler of a loader over an empty dataset raises
\* ValueError in the library versions that check num_samples > 0 and is
\* accepted by the others
BuildLoaders ==
    /\ pc = "loaders"
    /\ \/ /\ pc' = "model"
          /\ UNCHANGED err
       \/ /\ train_dataset = {} \/ test_dataset = {}
          /\ Raise("ValueError")
    /\ UNCHANGED <<CATEGORY, ENCODE_CAT, encode_dict, train_dataset,
                   test_dataset, weights, epoch, train_seen, test_left,
                   n_correct, total, acc, saved>>

\* model = DistillBERTClass(); optimizer = Adam(model.parameters())
BuildModel ==
    /\ pc = "model"
    /\ weights' = 0
    /\ epoch' = 0
    /\ train_seen' = 0
    /\ pc' = "train"
    /\ UNCHANGED <<CATEGORY, ENCODE_CAT, encode_dict, train_dataset,
                   test_dataset, test_left, n_correct, total, acc, saved,
                   err>>

\* size of the next batch a loader yields: batch_size, or what is left
BatchLen(batch_size, remaining) == Min(batch_size, remaining)

\* one iteration of the loop in train(epoch).  outputs.squeeze() drops the
\* batch dimension of a batch of one example, and loss_function then
\* rejects the shapes of outputs and targets
TrainBatch ==
    /\ pc = "train"
    /\ epoch < EPOCHS
    /\ train_seen < Cardinality(train_dataset)
    /\ LET b == BatchLen(TRAIN_BATCH_SIZE,
                         Cardinality(train_dataset) - train_seen)
       IN  IF b = 1
           THEN /\ Raise("LossShapeError")
                /\ UNCHANGED <<weights, train_seen>>
           ELSE /\ weights' = weights + 1
                /\ train_seen' = train_seen + b
                /\ UNCHANGED <<pc, err>>
    /\ UNCHANGED <<CATEGORY, ENCODE_CAT, encode_dict, train_dataset,
                   test_dataset, epoch, test_left, n_correct, total, acc,
                   saved>>

\* train(epoch) returns when the loader is exhausted; the for loop goes on
\* to the next epoch
TrainEpochEnd ==
    /\ pc = "train"
    /\ epoch < EPOCHS
    /\ train_seen = Cardinality(train_dataset)
    /\ epoch' = epoch + 1
    /\ train_seen' = 0
    /\ UNCHANGED <<pc, CATEGORY, ENCODE_CAT, encode_dict, train_dataset,
                   test_dataset, weights, test_left, n_correct, total, acc,
                   saved, err>>

\* acc = valid(model, testing_loader) is called after the last epoch:
\* n_correct = 0; total = 0, and the loader starts a new pass
ValidCall ==
    /\ pc = "train"
    /\ epoch = EPOCHS
    /\ n_correct' = 0
    /\ total' = 0
    /\ test_left' = test_dataset
    /\ pc' = "valid"
    /\ UNCHANGED <<CATEGORY, ENCODE_CAT, encode_dict, train_dataset,
                   test_dataset, weights, epoch, train_seen, acc, saved,
                   err>>

\* targets of a test row: its ENCODE_CAT
Target(row) == ENCODE_CAT[row + 1]

\* positions torch.max(outputs.data, dim=1) may report
BigIdx == 0 .. MaxBigIdx

\* variant of the loop body of valid that also takes an optimizer step
ValidWeightsStep(w) == w + 1
\* effect of one loop iteration of valid on the model weights: none, the
\* loop runs under torch.no_grad() and calls neither backward nor step
ValidWeights(w) == w

\* one iteration of the loop in valid.  squeeze() drops the batch dimension
\* of a batch of one example, and torch.max(dim=1) raises IndexError
ValidBatch ==
    /\ pc = "valid"
    /\ test_left # {}
    /\ \E batch \in SUBSET test_left :
          /\ Cardinality(batch) = BatchLen(VALID_BATCH_SIZE,
                                           Cardinality(test_left))
          /\ IF Cardinality(batch) = 1
             THEN /\ Raise("IndexError")
                  /\ UNCHANGED <<test_left, total, n_correct, weights>>
             ELSE \E big_idx \in [batch -> BigIdx] :
                     /\ total' = total + Cardinality(batch)
                     /\ n_correct' = n_correct + Cardinality(
                            {r \in batch : big_idx[r] = Target(r)})
                     /\ test_left' = test_left \ batch
                     /\ weights' = ValidWeights(weights)
                     /\ UNCHANGED <<pc, err>>
    /\ UNCHANGED <<CATEGORY, ENCODE_CAT, encode_dict, train_dataset,
                   test_dataset, epoch, train_seen, acc, saved>>

\* return (n_correct*100.0)/total, kept as the pair <<numerator, denominator>>
ValidReturn ==
    /\ pc = "valid"
    /\ test_left = {}
    /\ IF total = 0
       THEN /\ Raise("ZeroDivisionError")
            /\ UNCHANGED acc
       ELSE /\ acc' = <<n_correct * 100, total>>
            /\ pc' = "save_model"
            /\ UNCHANGED err
    /\ UNCHANGED <<CATEGORY, ENCODE_CAT, encode_dict, train_dataset,
                   test_dataset, weights, epoch, train_seen, test_left,
                   n_correct, total, saved>>

\* files written by the two save statements
SavedByModelSave(files) == files \cup {output_model_file}
\* variant of save_vocabulary that writes no file
SavedByVocabSaveNone(files) == files
SavedByVocabSave(files) == files \cup {output_vocab_file}

\* torch.save(model_to_save, output_model_file)
SaveModel ==
    /\ pc = "save_model"
    /\ saved' = SavedByModelSave(saved)
    /\ pc' = "save_vocab"
    /\ UNCHANGED <<CATEGORY, ENCODE_CAT, encode_dict, train_dataset,
                   test_dataset, weights, epoch, train_seen, test_left,
                   n_correct, total, acc, err>>

\* tokenizer.save_vocabulary(output_vocab_file)
SaveVocab ==
    /\ pc = "save_vocab"
    /\ saved' = SavedByVocabSave(saved)
    /\ pc' = "done"
    /\ UNCHANGED <<CATEGORY, ENCODE_CAT, encode_dict, train_dataset,
                   test_dataset, weights, epoch, train_seen, test_left,
                   n_correct, total, acc, err>>

Next ==
    \/ UpdateCat
    \/ EncodeCat
    \/ Split
    \/ BuildLoaders
    \/ BuildModel
    \/ TrainBatch
    \/ TrainEpochEnd
    \/ ValidCall
    \/ ValidBatch
    \/ ValidReturn
    \/ SaveModel
    \/ SaveVocab

Spec == Init /\ [][Next]_vars

(* ------------------------------ claims --------------------------------- *)
\* the frame has been split into train_dataset and test_dataset
SplitDone == pc \notin {"update_cat", "encode_cat"} /\ err # KeyError

\* names update_cat produces
Names == {my_dict[c] : c \in DOMAIN my_dict}

\* some input row carries a CATEGORY code outside the keys of my_dict
BadInput == \E i \in 1..NumRows : CATEGORY[i] \notin (DOMAIN my_dict \cup Names)

\* C1: the ENCODE_CAT value of a row depends only on the row's category:
\* two encoded rows get the same integer iff they have the same category
C1_EncodeDependsOnCategory ==
    \A i, j \in 1..Len(ENCODE_CAT) :
        (CATEGORY[i] = CATEGORY[j]) <=> (ENCODE_CAT[i] = ENCODE_CAT[j])

\* categories of the rows encoded so far, and those seen before row i
SeenBefore(i) == {CATEGORY[k] : k \in 1..(i - 1)}
FirstSeenAt(c) ==
    CHOOSE i \in 1..Len(ENCODE_CAT) : CATEGORY[i] = c /\ c \notin SeenBefore(i)

\* C2: encode_dict holds exactly the distinct categories seen so far, with
\* the dense indices 0..n-1 in first-seen order (so an entry never changes
\* as further rows are encoded), and the integer stored for a row is the
\* index encode_dict holds for the row's category
C2_EncodeDictFirstSeen ==
    /\ DOMAIN encode_dict = SeenBefore(Len(ENCODE_CAT) + 1)
    /\ \A c \in DOMAIN encode_dict :
          encode_dict[c] = Cardinality(SeenBefore(FirstSeenAt(c)))
    /\ \A i \in 1..Len(ENCODE_CAT) : ENCODE_CAT[i] = encode_dict[CATEGORY[i]]

\* C3: no row of the test dataset is also a row of the training dataset
C3_TestRowsUnseen ==
    SplitDone => train_dataset \cap test_dataset = {}

\* C4: the training dataset holds 80% of the rows, the test dataset the
\* remaining 20%, and together they hold every original row exactly once
C4_SplitIsPartition ==
    SplitDone =>
        /\ Cardinality(train_dataset) = SampleSize(NumRows)
        /\ Cardinality(test_dataset) = NumRows - SampleSize(NumRows)
        /\ train_dataset \cup test_dataset = Labels(NumRows)
        /\ train_dataset \cap test_dataset = {}

\* C5: valid returns 100 * correct / total with total the number of test
\* examples, each counted once whatever the size of the last batch;
\* correct <= total after every batch and the result lies in 0..100
C5_ValidReturnsAccuracy ==
    /\ err \notin {"IndexError", "ZeroDivisionError"}
    /\ pc = "valid" =>
          /\ total = Cardinality(test_dataset) - Cardinality(test_left)
          /\ n_correct <= total
    /\ pc \in {"save_model", "save_vocab", "done"} =>
          /\ total = Cardinality(test_dataset)
          /\ acc = <<100 * n_correct, total>>
          /\ 0 <= acc[1] /\ acc[1] <= 100 * acc[2]

\* C6: from the call of valid until it returns or raises, no step changes
\* the model weights
C6_ValidKeepsWeights ==
    [][(pc = "valid" \/ pc' = "valid") => weights' = weights]_vars

\* valid has processed a batch after a training that changed the weights,
\* and returned
C6_Witness ==
    pc = "save_model" /\ total > 0 /\ weights > 0

\* position of a stage in the script
Stages == <<"update_cat", "encode_cat", "loaders", "model", "train", "valid",
            "save_model", "save_vocab", "done">>
Rank(p) == CHOOSE r \in 1..Len(Stages) : Stages[r] = p

\* what has happened by the time a stage is reached
StageState ==
    /\ pc \in {"update_cat", "encode_cat", "loaders", "model"} =>
          weights = 0 /\ epoch = 0
    /\ pc \in {"update_cat", "encode_cat", "loaders", "model", "train",
               "valid"} => acc = <<>>
    /\ pc \in {"valid", "save_model", "save_vocab", "done"} =>
          epoch = EPOCHS /\ weights > 0
    /\ saved # {} =>
          /\ pc \in {"save_vocab", "done"}
          /\ epoch = EPOCHS
          /\ acc # <<>>
          /\ total = Cardinality(test_dataset)
    /\ pc = "done" => saved = {output_model_file, output_vocab_file}

\* C7: the stages run strictly in script order, the artifacts are written
\* only after all EPOCHS epochs and the evaluation have completed, and a
\* run that completes has written both
C7_StagesInOrder ==
    /\ []StageState
    /\ [][pc # "failed" /\
          (pc' = pc \/ pc' = "failed" \/ Rank(pc') = Rank(pc) + 1)]_vars

\* a complete run: trained, evaluated, both artifacts written
C7_Witness ==
    /\ pc = "done"
    /\ saved = {output_model_file, output_vocab_file}
    /\ epoch = EPOCHS /\ acc # <<>>

\* the run has not got past update_cat
EndedAtUpdateCat ==
    /\ pc \in {"update_cat", "failed"}
    /\ pc = "failed" => err = KeyError
    /\ ENCODE_CAT = <<>>
    /\ weights = 0
    /\ saved = {}

\* C8: with an input row whose CATEGORY is outside {e, b, t, m} update_cat
\* fails and the run ends there: no training step is taken, no artifact is
\* written, and no step follows the failure
C8_BadCategoryEndsRun ==
    /\ [](BadInput => EndedAtUpdateCat)
    /\ [][pc # "failed"]_vars

\* update_cat has raised on a bad row and the run has ended
C8_Witness ==
    BadInput /\ pc = "failed" /\ err = KeyError /\ NumRows > 1
====
